---- MODULE Spec2Model ----
(***************************************************************************)
(* Field-level JSON persistence (bonus_auto_persist.py).                   *)
(*                                                                         *)
(* A Person instance carries a filename and a person_id; every read or     *)
(* write of one of its Field attributes loads the whole JSON document of   *)
(* that file, looks up / updates one field of one record and, for a write, *)
(* dumps the whole document back.                                          *)
(*                                                                         *)
(* Python values are records [type, val]; a dict is the sequence of its    *)
(* items [k, v] in insertion order; a file is a record [exists, data]      *)
(* whose data is the sequence of chunks json.dump wrote to it.             *)
(*                                                                         *)
(* The two small descriptors of example_1_logging.py (LogAccess) and       *)
(* example_2_validation.py (PhoneNumber) are modelled on objects of their  *)
(* own, at the end.                                                        *)
(***************************************************************************)
EXTENDS Integers, Sequences, FiniteSets, TLC

VARIABLES
    files,      \* the file system: filename -> [exists, denied, data]
    instances,  \* the Person objects: instance -> its class and __dict__
    last,       \* the last attribute access made by the sequential program
    nops,       \* number of attribute accesses made so far
    threads,    \* the writer threads of the concurrent program
    assigned,   \* history: the filename and person_id last assigned to each instance
    written,    \* history: the value last written to each (file, record, field)
    objects,    \* the objects of the two example modules: object -> its __dict__
    access,     \* the last attribute access made on an example object
    recent      \* history: the value last assigned through LogAccess, per object

persistVars == <<files, instances, last, nops, threads, assigned, written>>
exampleVars == <<objects, access, recent>>
vars == <<files, instances, last, nops, threads, assigned, written,
          objects, access, recent>>

\* Number of attribute accesses the sequential program makes.
MaxOps == 3

-----------------------------------------------------------------------------
(* Python values *)

None == [type |-> "NoneType", val |-> "None"]
PyStr(s) == [type |-> "str", val |-> s]
PyInt(s) == [type |-> "int", val |-> s]
PyTuple(s) == [type |-> "tuple", val |-> s]
PyList(s) == [type |-> "list", val |-> s]
PySet(s) == [type |-> "set", val |-> s]

\* bool(v), as the `and` of Field.__get__ / Field.__set__ evaluates it
Truthy(v) ==
    CASE v.type = "NoneType" -> FALSE
      [] v.type = "str" -> v.val # ""
      [] v.type = "int" -> v.val # "0"
      [] OTHER -> v.val # ""

\* str(v)
Str(v) == PyStr(v.val)

\* dict.get(key, default) on a dict kept as the sequence of its items
DictGet(d, key, default) ==
    IF \E j \in 1..Len(d) : d[j].k = key
    THEN d[CHOOSE j \in 1..Len(d) : d[j].k = key].v
    ELSE default

DictHas(d, key) == \E j \in 1..Len(d) : d[j].k = key

\* d[key] = value: an existing key keeps its place, a new key goes last
DictSet(d, key, value) ==
    IF DictHas(d, key)
    THEN [j \in 1..Len(d) |-> IF d[j].k = key THEN [k |-> key, v |-> value] ELSE d[j]]
    ELSE Append(d, [k |-> key, v |-> value])

DictKeys(d) == {d[j].k : j \in 1..Len(d)}

-----------------------------------------------------------------------------
(* The inputs of the program *)

Locations == {"people.json", "other.json"}
FieldNames == {"name", "email"}
Values == {None, PyStr("James Schue"), PyTuple("1, 2"), PySet("1, 2")}
Instances == {"marketing_target_1", "marketing_target_2", "anonymous"}
Threads == {"t1", "t2"}

\* the instances of the other programs: identities 1 and "1", a filename of
\* None, an empty filename, and a class that declares no JsonFilename
IdentInstances == {"int_one", "str_one", "nowhere", "blank", "unfiled"}
AllInstances == Instances \cup IdentInstances
RecordKeys == {"person-1", "person-2", "1"}

NoFile == [exists |-> FALSE, denied |-> FALSE, data |-> <<>>]
IdleThread == [pc |-> "idle", inst |-> "marketing_target_1", name |-> "name",
               value |-> None, all_records |-> <<>>, pos |-> 0]
NoAccess == [op |-> "none", inst |-> "marketing_target_1", name |-> "name",
             value |-> None, result |-> None, raised |-> FALSE,
             opens |-> 0, handles |-> 0,
             before |-> [f \in Locations |-> NoFile]]

-----------------------------------------------------------------------------
(* json: the chunks json.dump writes, and what json.load reads back *)

Tok(kind, text) == [tok |-> kind, text |-> text]

\* JSONEncoder.default raises TypeError for anything but these
Serializable(v) == v.type \in {"NoneType", "str", "int", "list", "tuple"}

\* the chunk of one value: a tuple is written as an array
encode(v) ==
    CASE v.type = "NoneType" -> Tok("null", "null")
      [] v.type = "str" -> Tok("string", v.val)
      [] v.type = "int" -> Tok("number", v.val)
      [] OTHER -> Tok("array", v.val)

\* the value json.load builds from one chunk: an array is read as a list
decode(t) ==
    CASE t.tok = "null" -> None
      [] t.tok = "string" -> PyStr(t.text)
      [] t.tok = "number" -> PyInt(t.text)
      [] OTHER -> PyList(t.text)

IsValueTok(t) == t.tok \in {"null", "string", "number", "array"}

\* The chunks of the items of one record, up to the first value that cannot be
\* serialized: its key is already written when TypeError is raised.
RECURSIVE _iterencode_fields(_)
_iterencode_fields(record) ==
    IF record = <<>> THEN [chunks |-> <<>>, raised |-> FALSE]
    ELSE LET item == Head(record)
             key == <<Tok("key", item.k)>>
         IN IF ~Serializable(item.v) THEN [chunks |-> key, raised |-> TRUE]
            ELSE LET rest == _iterencode_fields(Tail(record))
                 IN [chunks |-> key \o <<encode(item.v)>> \o rest.chunks,
                     raised |-> rest.raised]

\* The chunks of the records of a document.
RECURSIVE _iterencode_records(_)
_iterencode_records(records) ==
    IF records = <<>> THEN [chunks |-> <<>>, raised |-> FALSE]
    ELSE LET item == Head(records)
             head == <<Tok("key", item.k), Tok("{", "{")>>
             body == _iterencode_fields(item.v)
         IN IF body.raised THEN [chunks |-> head \o body.chunks, raised |-> TRUE]
            ELSE LET rest == _iterencode_records(Tail(records))
                 IN [chunks |-> head \o body.chunks \o <<Tok("}", "}")>> \o rest.chunks,
                     raised |-> rest.raised]

\* json.dump's chunks for a document
_iterencode(records) ==
    LET body == _iterencode_records(records)
    IN IF body.raised THEN [chunks |-> <<Tok("{", "{")>> \o body.chunks, raised |-> TRUE]
       ELSE [chunks |-> <<Tok("{", "{")>> \o body.chunks \o <<Tok("}", "}")>>,
             raised |-> FALSE]

ParseFail == [ok |-> FALSE, value |-> <<>>, next |-> 0]

\* the items of one record, from chunk i to its closing brace
RECURSIVE ParseFields(_, _, _)
ParseFields(toks, i, acc) ==
    IF i > Len(toks) THEN ParseFail
    ELSE IF toks[i].tok = "}" THEN [ok |-> TRUE, value |-> acc, next |-> i + 1]
    ELSE IF toks[i].tok = "key" /\ i + 1 <= Len(toks) /\ IsValueTok(toks[i + 1])
         THEN ParseFields(toks, i + 2, DictSet(acc, toks[i].text, decode(toks[i + 1])))
    ELSE ParseFail

\* the records of a document, from chunk i to its closing brace
RECURSIVE ParseRecords(_, _, _)
ParseRecords(toks, i, acc) ==
    IF i > Len(toks) THEN ParseFail
    ELSE IF toks[i].tok = "}" THEN [ok |-> TRUE, value |-> acc, next |-> i + 1]
    ELSE IF toks[i].tok = "key" /\ i + 1 <= Len(toks) /\ toks[i + 1].tok = "{"
         THEN LET rec == ParseFields(toks, i + 2, <<>>)
              IN IF rec.ok
                 THEN ParseRecords(toks, rec.next, DictSet(acc, toks[i].text, rec.value))
                 ELSE ParseFail
    ELSE ParseFail

\* json.load: the document, or JSONDecodeError (truncated text, extra data)
json_load(data) ==
    IF Len(data) = 0 \/ data[1].tok # "{" THEN ParseFail
    ELSE LET doc == ParseRecords(data, 2, <<>>)
         IN IF doc.ok /\ doc.next = Len(data) + 1 THEN doc ELSE ParseFail

-----------------------------------------------------------------------------
(* Files *)

\* open as it would be if every mode created a missing file, as "a+" does
open_creating(fs, filename, mode) ==
    IF fs[filename].denied
    THEN [fs |-> fs, pos |-> 0, raised |-> "PermissionError"]
    ELSE IF mode = "r"
    THEN [fs |-> [fs EXCEPT ![filename].exists = TRUE], pos |-> 0, raised |-> ""]
    ELSE [fs |-> [fs EXCEPT ![filename].exists = TRUE, ![filename].data = <<>>],
          pos |-> 0, raised |-> ""]

\* open as it would be if "w" appended, as "a" does, instead of truncating
open_append(fs, filename, mode) ==
    IF fs[filename].denied
    THEN [fs |-> fs, pos |-> 0, raised |-> "PermissionError"]
    ELSE IF mode = "r"
    THEN [fs |-> fs, pos |-> 0,
          raised |-> IF fs[filename].exists THEN "" ELSE "FileNotFoundError"]
    ELSE [fs |-> [fs EXCEPT ![filename].exists = TRUE],
          pos |-> Len(fs[filename].data), raised |-> ""]

\* open(filename, mode): "r" needs the file and leaves it alone, "w" creates
\* or truncates it; a file the process may not open raises PermissionError.
\* pos is where the handle writes.
open(fs, filename, mode) ==
    IF fs[filename].denied
    THEN [fs |-> fs, pos |-> 0, raised |-> "PermissionError"]
    ELSE IF mode = "r"
    THEN [fs |-> fs, pos |-> 0,
          raised |-> IF fs[filename].exists THEN "" ELSE "FileNotFoundError"]
    ELSE [fs |-> [fs EXCEPT ![filename].exists = TRUE, ![filename].data = <<>>],
          pos |-> 0, raised |-> ""]

\* the handle's buffered chunks reach the file when the with block closes it
write(fs, filename, pos, chunks) ==
    LET old == fs[filename].data
        kept == SubSeq(old, 1, pos)
        tail == SubSeq(old, pos + Len(chunks) + 1, Len(old))
    IN [fs EXCEPT ![filename].data = kept \o chunks \o tail]

\* What the two functions below return: the file system, whether an error
\* propagates, the value, the number of open() calls made and the number of
\* handles still open on return (the with block closes its handle on every
\* exit, an open() that raises gives no handle).

\* _load_records as it would be without its except clause
_load_records_uncaught(fs, filename) ==
    LET infile == open(fs, filename, "r")
    IN IF infile.raised # ""
       THEN [fs |-> infile.fs, raised |-> TRUE, value |-> <<>>,
             opens |-> 1, handles |-> 0]
       ELSE LET doc == json_load(infile.fs[filename].data)
            IN [fs |-> infile.fs, raised |-> ~doc.ok, value |-> doc.value,
                opens |-> 1, handles |-> 0]

\* _load_records as it would be if any error, not only FileNotFoundError,
\* gave the empty document
_load_records_catch_all(fs, filename) ==
    LET infile == open(fs, filename, "r")
    IN IF infile.raised # ""
       THEN [fs |-> infile.fs, raised |-> FALSE, value |-> <<>>,
             opens |-> 1, handles |-> 0]
       ELSE LET doc == json_load(infile.fs[filename].data)
            IN [fs |-> infile.fs, raised |-> FALSE, value |-> doc.value,
                opens |-> 1, handles |-> 0]

_load_records(fs, filename) ==
    LET infile == open(fs, filename, "r")
    IN IF infile.raised = "FileNotFoundError"
       THEN [fs |-> infile.fs, raised |-> FALSE, value |-> <<>>,
             opens |-> 1, handles |-> 0]
       ELSE IF infile.raised # ""
       THEN [fs |-> infile.fs, raised |-> TRUE, value |-> <<>>,
             opens |-> 1, handles |-> 0]
       ELSE LET doc == json_load(infile.fs[filename].data)
            IN [fs |-> infile.fs, raised |-> ~doc.ok, value |-> doc.value,
                opens |-> 1, handles |-> 0]

\* _save_records as it would be with open() and close() in place of the with
\* block: an error in json.dump skips the close
_save_records_unclosed(fs, filename, records) ==
    LET outfile == open(fs, filename, "w")
        dumped == _iterencode(records)
    IN IF outfile.raised # ""
       THEN [fs |-> outfile.fs, raised |-> TRUE, opens |-> 1, handles |-> 0]
       ELSE [fs |-> write(outfile.fs, filename, outfile.pos, dumped.chunks),
             raised |-> dumped.raised, opens |-> 1,
             handles |-> IF dumped.raised THEN 1 ELSE 0]

_save_records(fs, filename, records) ==
    LET outfile == open(fs, filename, "w")
        dumped == _iterencode(records)
    IN IF outfile.raised # ""
       THEN [fs |-> outfile.fs, raised |-> TRUE, opens |-> 1, handles |-> 0]
       ELSE [fs |-> write(outfile.fs, filename, outfile.pos, dumped.chunks),
             raised |-> dumped.raised, opens |-> 1, handles |-> 0]

-----------------------------------------------------------------------------
(* Descriptors *)

\* the descriptors a class declares: Person declares both, Unfiled declares a
\* RecordId and Fields but no JsonFilename
ClassDescriptors(class) ==
    IF class = "Person" THEN {"JsonFilename", "RecordId"} ELSE {"RecordId"}

\* Person.__init__
Person(filename, person_id) ==
    [class |-> "Person", filename |-> filename, person_id |-> person_id]

\* an object of a class without a JsonFilename attribute
Unfiled(person_id) ==
    [class |-> "Unfiled", filename |-> None, person_id |-> person_id]

\* IdentityDescriptor.__set__ as it would be if the value, once set by the
\* constructor, were kept
IdentityDescriptor__set__once(instance, name, value) == instance

\* IdentityDescriptor.__set__: instance.__dict__[self.name] = value
IdentityDescriptor__set__(instance, name, value) ==
    [instance EXCEPT ![name] = value]

\* IdentityDescriptor.__get__: instance.__dict__.get(self.name)
IdentityDescriptor__get__(instance, name) == instance[name]

_json_filename(instance) ==
    IF "JsonFilename" \in ClassDescriptors(instance.class)
    THEN IdentityDescriptor__get__(instance, "filename")
    ELSE None

\* _record_id as it would be with repr() in place of str()
_record_id_repr(instance) ==
    IF "RecordId" \in ClassDescriptors(instance.class)
    THEN LET v == IdentityDescriptor__get__(instance, "person_id")
         IN IF v.type = "str" THEN PyStr("'" \o v.val \o "'") ELSE Str(v)
    ELSE None

_record_id(instance) ==
    IF "RecordId" \in ClassDescriptors(instance.class)
    THEN Str(IdentityDescriptor__get__(instance, "person_id"))
    ELSE None

\* What Field.__get__ and Field.__set__ return: as above, with the handles
\* and open() calls of the functions they call.

\* Field.__get__ as it would be if it looked the field up in the document
\* instead of in the record
Field__get__from_document(fs, instance, name) ==
    IF Truthy(_json_filename(instance)) /\ Truthy(_record_id(instance))
    THEN LET loaded == _load_records(fs, _json_filename(instance).val)
         IN IF loaded.raised
            THEN [fs |-> loaded.fs, raised |-> TRUE, value |-> None,
                  opens |-> loaded.opens, handles |-> loaded.handles]
            ELSE [fs |-> loaded.fs, raised |-> FALSE,
                  value |-> DictGet(loaded.value, name, None),
                  opens |-> loaded.opens, handles |-> loaded.handles]
    ELSE [fs |-> fs, raised |-> FALSE, value |-> None, opens |-> 0, handles |-> 0]

\* Field.__get__ as it would be if a missing field read as a marker of its own
\* instead of None
Field__get__marker(fs, instance, name) ==
    IF Truthy(_json_filename(instance)) /\ Truthy(_record_id(instance))
    THEN LET loaded == _load_records(fs, _json_filename(instance).val)
             record == DictGet(loaded.value, _record_id(instance).val, <<>>)
         IN IF loaded.raised
            THEN [fs |-> loaded.fs, raised |-> TRUE, value |-> None,
                  opens |-> loaded.opens, handles |-> loaded.handles]
            ELSE [fs |-> loaded.fs, raised |-> FALSE,
                  value |-> DictGet(record, name, PyStr("<absent>")),
                  opens |-> loaded.opens, handles |-> loaded.handles]
    ELSE [fs |-> fs, raised |-> FALSE, value |-> None, opens |-> 0, handles |-> 0]

Field__get__(fs, instance, name) ==
    IF Truthy(_json_filename(instance)) /\ Truthy(_record_id(instance))
    THEN LET loaded == _load_records(fs, _json_filename(instance).val)
             record == DictGet(loaded.value, _record_id(instance).val, <<>>)
         IN IF loaded.raised
            THEN [fs |-> loaded.fs, raised |-> TRUE, value |-> None,
                  opens |-> loaded.opens, handles |-> loaded.handles]
            ELSE [fs |-> loaded.fs, raised |-> FALSE,
                  value |-> DictGet(record, name, None),
                  opens |-> loaded.opens, handles |-> loaded.handles]
    ELSE [fs |-> fs, raised |-> FALSE, value |-> None, opens |-> 0, handles |-> 0]

\* Field.__set__ as it would be if it started from an empty record instead of
\* the record the document holds
Field__set__fresh_record(fs, instance, name, value) ==
    IF Truthy(_json_filename(instance)) /\ Truthy(_record_id(instance))
    THEN LET filename == _json_filename(instance).val
             loaded == _load_records(fs, filename)
             record == DictSet(<<>>, name, value)
             all_records == DictSet(loaded.value, _record_id(instance).val, record)
             saved == _save_records(loaded.fs, filename, all_records)
         IN IF loaded.raised
            THEN [fs |-> loaded.fs, raised |-> TRUE,
                  opens |-> loaded.opens, handles |-> loaded.handles]
            ELSE [fs |-> saved.fs, raised |-> saved.raised,
                  opens |-> loaded.opens + saved.opens,
                  handles |-> loaded.handles + saved.handles]
    ELSE [fs |-> fs, raised |-> FALSE, opens |-> 0, handles |-> 0]

\* Field.__set__ as it would be if its guard looked at the record id alone:
\* open() then raises for a filename of None or ""
Field__set__id_guard_only(fs, instance, name, value) ==
    IF Truthy(_record_id(instance))
    THEN IF ~Truthy(_json_filename(instance))
         THEN [fs |-> fs, raised |-> TRUE, opens |-> 1, handles |-> 0]
         ELSE LET filename == _json_filename(instance).val
                  loaded == _load_records(fs, filename)
                  record == DictSet(DictGet(loaded.value, _record_id(instance).val, <<>>),
                                    name, value)
                  all_records == DictSet(loaded.value, _record_id(instance).val, record)
                  saved == _save_records(loaded.fs, filename, all_records)
              IN IF loaded.raised
                 THEN [fs |-> loaded.fs, raised |-> TRUE,
                       opens |-> loaded.opens, handles |-> loaded.handles]
                 ELSE [fs |-> saved.fs, raised |-> saved.raised,
                       opens |-> loaded.opens + saved.opens,
                       handles |-> loaded.handles + saved.handles]
    ELSE [fs |-> fs, raised |-> FALSE, opens |-> 0, handles |-> 0]

\* Field.__set__ as it would be if it saved the written record alone instead
\* of the document it loaded
Field__set__lone_record(fs, instance, name, value) ==
    IF Truthy(_json_filename(instance)) /\ Truthy(_record_id(instance))
    THEN LET filename == _json_filename(instance).val
             loaded == _load_records(fs, filename)
             record == DictSet(DictGet(loaded.value, _record_id(instance).val, <<>>),
                               name, value)
             all_records == DictSet(<<>>, _record_id(instance).val, record)
             saved == _save_records(loaded.fs, filename, all_records)
         IN IF loaded.raised
            THEN [fs |-> loaded.fs, raised |-> TRUE,
                  opens |-> loaded.opens, handles |-> loaded.handles]
            ELSE [fs |-> saved.fs, raised |-> saved.raised,
                  opens |-> loaded.opens + saved.opens,
                  handles |-> loaded.handles + saved.handles]
    ELSE [fs |-> fs, raised |-> FALSE, opens |-> 0, handles |-> 0]

Field__set__(fs, instance, name, value) ==
    IF Truthy(_json_filename(instance)) /\ Truthy(_record_id(instance))
    THEN LET filename == _json_filename(instance).val
             loaded == _load_records(fs, filename)
             record == DictSet(DictGet(loaded.value, _record_id(instance).val, <<>>),
                               name, value)
             all_records == DictSet(loaded.value, _record_id(instance).val, record)
             saved == _save_records(loaded.fs, filename, all_records)
         IN IF loaded.raised
            THEN [fs |-> loaded.fs, raised |-> TRUE,
                  opens |-> loaded.opens, handles |-> loaded.handles]
            ELSE [fs |-> saved.fs, raised |-> saved.raised,
                  opens |-> loaded.opens + saved.opens,
                  handles |-> loaded.handles + saved.handles]
    ELSE [fs |-> fs, raised |-> FALSE, opens |-> 0, handles |-> 0]

-----------------------------------------------------------------------------
(* The objects of the example modules (their descriptors come last) *)

\* two example_1_logging.Person objects, an example_2_validation.Person and
\* an example_2_validation.Company
LogObjects == {"p1", "p2"}
PhoneObjects == {"p", "c"}
Objects == LogObjects \cup PhoneObjects

\* an object's __dict__: what it holds (or not) under each name a descriptor uses
Slots == {"_value", "_phone", "_name", "_email"}
NoAttr == [set |-> FALSE, v |-> <<>>]
Attr(v) == [set |-> TRUE, v |-> v]
NewObject == [slot \in Slots |-> NoAttr]
NoExampleAccess == [op |-> "none", obj |-> "p1", attr |-> "name", value |-> <<>>,
                    result |-> <<>>, raised |-> "", log |-> "",
                    before |-> [o \in Objects |-> NewObject]]
NoAssignment == [set |-> FALSE, v |-> <<>>, attr |-> ""]

-----------------------------------------------------------------------------
(* The sequential program: attribute accesses one after the other *)

\* the constructor calls that make the instances
Constructed(i) ==
    CASE i = "marketing_target_1" -> Person(PyStr("people.json"), PyStr("person-1"))
      [] i = "marketing_target_2" -> Person(PyStr("people.json"), PyStr("person-2"))
      [] i = "anonymous" -> Person(PyStr("other.json"), None)
      [] i = "int_one" -> Person(PyStr("people.json"), PyInt("1"))
      [] i = "str_one" -> Person(PyStr("people.json"), PyStr("1"))
      [] i = "nowhere" -> Person(None, PyStr("person-1"))
      [] i = "blank" -> Person(PyStr(""), PyStr("person-1"))
      [] OTHER -> Unfiled(PyStr("person-1"))

NothingWritten ==
    [ok |-> TRUE,
     map |-> [t \in Locations \X RecordKeys \X FieldNames |-> NoAttr]]

InitRest ==
    /\ instances = [i \in AllInstances |-> Constructed(i)]
    /\ assigned = [i \in AllInstances |->
          [filename |-> Constructed(i).filename, person_id |-> Constructed(i).person_id]]
    /\ written = NothingWritten
    /\ last = NoAccess
    /\ nops = 0
    /\ threads = [t \in Threads |-> IdleThread]
    /\ objects = [o \in Objects |-> NewObject]
    /\ access = NoExampleAccess
    /\ recent = [o \in Objects |-> NoAssignment]

Init ==
    /\ files = [f \in Locations |-> NoFile]
    /\ InitRest

\* history: a write that raised nothing, made through an instance that was
\* given a filename and an identity, is the last write to its target
Record(w, i, name, value, raised) ==
    LET a == assigned[i]
    IN IF raised THEN [w EXCEPT !.ok = FALSE]
       ELSE IF /\ instances[i].class = "Person"
               /\ a.filename.type = "str" /\ a.filename.val \in Locations
               /\ a.person_id.type \in {"str", "int"} /\ a.person_id.val \in RecordKeys
       THEN [w EXCEPT !.map[<<a.filename.val, a.person_id.val, name>>] = Attr(value)]
       ELSE w

\* value = instance.name
FieldGet(i, name) ==
    /\ nops < MaxOps
    /\ LET got == Field__get__(files, instances[i], name)
       IN /\ files' = got.fs
          /\ last' = [op |-> "get", inst |-> i, name |-> name, value |-> None,
                      result |-> got.value, raised |-> got.raised,
                      opens |-> got.opens, handles |-> got.handles, before |-> files]
    /\ nops' = nops + 1
    /\ UNCHANGED <<instances, threads, assigned, written, exampleVars>>

\* instance.name = value
FieldSet(i, name, value) ==
    /\ nops < MaxOps
    /\ LET done == Field__set__(files, instances[i], name, value)
       IN /\ files' = done.fs
          /\ last' = [op |-> "set", inst |-> i, name |-> name, value |-> value,
                      result |-> None, raised |-> done.raised,
                      opens |-> done.opens, handles |-> done.handles, before |-> files]
          /\ written' = Record(written, i, name, value, done.raised)
    /\ nops' = nops + 1
    /\ UNCHANGED <<instances, threads, assigned, exampleVars>>

Next ==
    \/ \E i \in Instances, name \in FieldNames : FieldGet(i, name)
    \/ \E i \in Instances, name \in FieldNames, value \in Values : FieldSet(i, name, value)

Spec == Init /\ [][Next]_vars

-----------------------------------------------------------------------------
(* The concurrent program: each thread runs one `instance.name = value`,   *)
(* and the threads interleave between the statements of Field.__set__ and  *)
(* of the functions it calls. The chunks json.dump writes stay in the      *)
(* handle's buffer until the with block closes the file.                   *)

\* line 65: the guard of Field.__set__
ThreadSet(t, i, name, value) ==
    /\ threads[t].pc = "idle"
    /\ threads' = [threads EXCEPT ![t] =
          [pc |-> IF Truthy(_json_filename(instances[i])) /\ Truthy(_record_id(instances[i]))
                  THEN "load" ELSE "done",
           inst |-> i, name |-> name, value |-> value, all_records |-> <<>>, pos |-> 0]]
    /\ UNCHANGED <<files, instances, last, nops, assigned, written, exampleVars>>

\* lines 66-69: load the document and update it in memory
ThreadLoad(t) ==
    /\ threads[t].pc = "load"
    /\ LET instance == instances[threads[t].inst]
           loaded == _load_records(files, _json_filename(instance).val)
           record == DictSet(DictGet(loaded.value, _record_id(instance).val, <<>>),
                             threads[t].name, threads[t].value)
           all_records == DictSet(loaded.value, _record_id(instance).val, record)
       IN /\ files' = loaded.fs
          /\ threads' = [threads EXCEPT
                ![t].pc = IF loaded.raised THEN "raised" ELSE "open",
                ![t].all_records = IF loaded.raised THEN <<>> ELSE all_records]
    /\ UNCHANGED <<instances, last, nops, assigned, written, exampleVars>>

\* line 15: open(filename, "w")
ThreadOpen(t) ==
    /\ threads[t].pc = "open"
    /\ LET outfile == open(files, _json_filename(instances[threads[t].inst]).val, "w")
       IN /\ files' = outfile.fs
          /\ threads' = [threads EXCEPT
                ![t].pc = IF outfile.raised # "" THEN "raised" ELSE "dump",
                ![t].pos = outfile.pos]
    /\ UNCHANGED <<instances, last, nops, assigned, written, exampleVars>>

\* line 16 and the end of the with block: dump, then flush and close
ThreadDump(t) ==
    /\ threads[t].pc = "dump"
    /\ LET dumped == _iterencode(threads[t].all_records)
       IN /\ files' = write(files, _json_filename(instances[threads[t].inst]).val,
                            threads[t].pos, dumped.chunks)
          /\ threads' = [threads EXCEPT
                ![t].pc = IF dumped.raised THEN "raised" ELSE "done"]
    /\ UNCHANGED <<instances, last, nops, assigned, written, exampleVars>>

NextConc ==
    \/ \E t \in Threads, i \in Instances, name \in FieldNames, value \in Values :
          ThreadSet(t, i, name, value)
    \/ \E t \in Threads : ThreadLoad(t)
    \/ \E t \in Threads : ThreadOpen(t)
    \/ \E t \in Threads : ThreadDump(t)

SpecConc == Init /\ [][NextConc]_vars

-----------------------------------------------------------------------------
(* The other programs over the same accesses *)

\* instance.filename = value, instance.person_id = value
IdentityAssign(i, attr, value) ==
    /\ nops < MaxOps
    /\ instances' = [instances EXCEPT ![i] = IdentityDescriptor__set__(instances[i], attr, value)]
    /\ assigned' = [assigned EXCEPT ![i][attr] = value]
    /\ last' = [op |-> "assign", inst |-> i, name |-> attr, value |-> value,
                result |-> None, raised |-> FALSE, opens |-> 0, handles |-> 0,
                before |-> files]
    /\ nops' = nops + 1
    /\ UNCHANGED <<files, threads, written, exampleVars>>

\* A program that also reassigns the filename and the person_id of its instances.
RebindInstances == {"marketing_target_1", "marketing_target_2"}
RebindValues == {None, PyStr("James Schue")}

NextRebind ==
    \/ \E i \in RebindInstances, name \in FieldNames : FieldGet(i, name)
    \/ \E i \in RebindInstances, name \in FieldNames, value \in RebindValues :
          FieldSet(i, name, value)
    \/ \E i \in RebindInstances, value \in {PyStr("people.json"), PyStr("other.json")} :
          IdentityAssign(i, "filename", value)
    \/ \E i \in RebindInstances, value \in {PyStr("person-1"), PyStr("person-2")} :
          IdentityAssign(i, "person_id", value)

SpecRebind == Init /\ [][NextRebind]_vars

\* A program whose instances have the identities 1 and "1", or no location.
NextIdent ==
    \/ \E i \in IdentInstances, name \in FieldNames : FieldGet(i, name)
    \/ \E i \in IdentInstances, name \in FieldNames, value \in Values :
          FieldSet(i, name, value)

SpecIdent == Init /\ [][NextIdent]_vars

\* A program with two instances of one record and one of another.
StoreInstances == {"marketing_target_1", "int_one", "str_one"}

NextStore ==
    \/ \E i \in StoreInstances, name \in FieldNames : FieldGet(i, name)
    \/ \E i \in StoreInstances, name \in FieldNames, value \in Values :
          FieldSet(i, name, value)

SpecStore == Init /\ [][NextStore]_vars

\* The sequential program started where people.json may already exist and be a
\* file the process is not allowed to open.
DeniedFile ==
    [exists |-> TRUE, denied |-> TRUE,
     data |-> _iterencode(<<[k |-> "person-1",
                             v |-> <<[k |-> "name", v |-> PyStr("James Schue")]>>]>>).chunks]

InitEnv ==
    /\ files \in {[f \in Locations |-> NoFile],
                  [f \in Locations |-> IF f = "people.json" THEN DeniedFile ELSE NoFile]}
    /\ InitRest

SpecEnv == InitEnv /\ [][Next]_vars

-----------------------------------------------------------------------------
(* example_2_validation.py: PhoneNumber. Strings are sequences of characters. *)

Digits == {"0", "1", "2", "3", "4", "5", "6", "7", "8", "9"}

\* the values assigned to a phone attribute
PhoneValues ==
    {<<"(", "8", "0", "0", ")", " ", "5", "5", "5", "-", "1", "2", "1", "2">>,
     <<"(", "2", "1", "2", ")", " ", "5", "5", "5", "-", "0", "1", "0", "0">>,
     <<"(", "8", "0", "0", ")", " ", "5", "5", "5", "-", "1", "2", "1", "2", "\n">>,
     <<"u", "n", "k", "n", "o", "w", "n">>,
     <<"(", "8", "0", "0", ")", " ", "5", "5", "5", "-", "1", "2", "1", "2", "3">>}

\* the pattern up to its $: ( ddd ) space ddd - dddd
MatchesPrefix(value) ==
    /\ Len(value) >= 14
    /\ value[1] = "(" /\ value[5] = ")" /\ value[6] = " " /\ value[10] = "-"
    /\ \A j \in {2, 3, 4, 7, 8, 9, 11, 12, 13, 14} : value[j] \in Digits

\* bool(re.match(r"^\(\d{3}\) \d{3}-\d{4}$", value)): $ matches at the end of
\* the string and also just before a newline that ends it
re_match(value) ==
    /\ MatchesPrefix(value)
    /\ \/ Len(value) = 14
       \/ Len(value) = 15 /\ value[15] = "\n"

\* f"_{self.name}"
SlotOf(name) == "_" \o name

\* PhoneNumber.__set__: the new __dict__ and the error raised, if any
PhoneNumber__set__(dict, name, value) ==
    IF re_match(value)
    THEN [dict |-> [dict EXCEPT ![SlotOf(name)] = Attr(value)], raised |-> ""]
    ELSE [dict |-> dict, raised |-> "AttributeError"]

\* PhoneNumber.__get__: getattr raises AttributeError when nothing is stored
PhoneNumber__get__(dict, name) ==
    IF dict[SlotOf(name)].set
    THEN [value |-> dict[SlotOf(name)].v, raised |-> ""]
    ELSE [value |-> <<>>, raised |-> "AttributeError"]

\* obj.phone = value
PhoneSet(o, value) ==
    /\ LET done == PhoneNumber__set__(objects[o], "phone", value)
       IN /\ objects' = [objects EXCEPT ![o] = done.dict]
          /\ access' = [op |-> "phone_set", obj |-> o, attr |-> "phone", value |-> value,
                        result |-> <<>>, raised |-> done.raised, log |-> "",
                        before |-> objects]
    /\ UNCHANGED <<persistVars, recent>>

\* obj.phone
PhoneGet(o) ==
    /\ LET got == PhoneNumber__get__(objects[o], "phone")
       IN access' = [op |-> "phone_get", obj |-> o, attr |-> "phone", value |-> <<>>,
                     result |-> got.value, raised |-> got.raised, log |-> "",
                     before |-> objects]
    /\ UNCHANGED <<persistVars, objects, recent>>

NextPhone ==
    \/ \E o \in PhoneObjects, value \in PhoneValues : PhoneSet(o, value)
    \/ \E o \in PhoneObjects : PhoneGet(o)

SpecPhone == Init /\ [][NextPhone]_vars

-----------------------------------------------------------------------------
(* example_1_logging.py: LogAccess *)

LogAttrs == {"name", "email"}
LogValues == {<<"J", "a", "m", "e", "s", " ", "N", "a", "s", "i", "u", "m">>, <<"j", "i", "m", ".", "n", "a", "s", "i", "u", "m", "@", "a", "o", "l", ".", "c", "o", "m">>, <<>>}

\* LogAccess.__set__ as it would be if email had a slot of its own and only
\* name were kept in _value
LogAccess__set__own_slot(dict, name, value) ==
    [dict |-> IF name = "name"
              THEN [dict EXCEPT !["_value"] = Attr(value)]
              ELSE [dict EXCEPT ![SlotOf(name)] = Attr(value)],
     log |-> "I'm writing to attribute " \o name]

\* LogAccess.__set__: print, then instance._value = value
LogAccess__set__(dict, name, value) ==
    [dict |-> [dict EXCEPT !["_value"] = Attr(value)],
     log |-> "I'm writing to attribute " \o name]

\* LogAccess.__get__: print, then instance._value (AttributeError when unset)
LogAccess__get__(dict, name) ==
    IF dict["_value"].set
    THEN [value |-> dict["_value"].v, raised |-> "",
          log |-> "I'm reading from a attribute " \o name]
    ELSE [value |-> <<>>, raised |-> "AttributeError",
          log |-> "I'm reading from a attribute " \o name]

\* obj.name = value, obj.email = value
LogSet(o, attr, value) ==
    /\ LET done == LogAccess__set__(objects[o], attr, value)
       IN /\ objects' = [objects EXCEPT ![o] = done.dict]
          /\ access' = [op |-> "log_set", obj |-> o, attr |-> attr, value |-> value,
                        result |-> <<>>, raised |-> "", log |-> done.log,
                        before |-> objects]
    /\ recent' = [recent EXCEPT ![o] = [set |-> TRUE, v |-> value, attr |-> attr]]
    /\ UNCHANGED persistVars

\* obj.name, obj.email
LogGet(o, attr) ==
    /\ LET got == LogAccess__get__(objects[o], attr)
       IN access' = [op |-> "log_get", obj |-> o, attr |-> attr, value |-> <<>>,
                     result |-> got.value, raised |-> got.raised, log |-> got.log,
                     before |-> objects]
    /\ UNCHANGED <<persistVars, objects, recent>>

NextLog ==
    \/ \E o \in LogObjects, attr \in LogAttrs, value \in LogValues : LogSet(o, attr, value)
    \/ \E o \in LogObjects, attr \in LogAttrs : LogGet(o, attr)

SpecLog == Init /\ [][NextLog]_vars

-----------------------------------------------------------------------------
(* What the claims speak of *)

\* the instance's location and record key, as an access resolves them
Loc(i) == _json_filename(instances[i]).val
Key(i) == _record_id(instances[i]).val

\* the guard of Field.__get__ / Field.__set__ lets the access reach storage
Bound(i) == Truthy(_json_filename(instances[i])) /\ Truthy(_record_id(instances[i]))

\* the instance was given a location and an identity
IdentitySet(i) == Bound(i) /\ instances[i].person_id # None

\* the document a file holds, and whether it holds one
Doc(fs, f) == json_load(fs[f].data).value
Valid(fs, f) == fs[f].exists /\ json_load(fs[f].data).ok

\* what a document stores for a field of a record; Unstored when it stores nothing
Unstored == [type |-> "unstored", val |-> ""]
Stored(doc, key, name) == DictGet(DictGet(doc, key, <<>>), name, Unstored)

\* the values JSON has: null, strings, numbers, arrays
JsonValue(v) == v.type \in {"NoneType", "str", "int", "list"}

\* C1 (isolation): a field write that reaches storage and does not raise leaves
\* a valid document that differs from the prior one in the written field of the
\* written record only: every other field of that record, every other record
\* and every other file is as before, and the written field holds the JSON form
\* of the value.
C1_Isolation ==
    (last.op = "set" /\ ~last.raised /\ Bound(last.inst)) =>
        LET old == Doc(last.before, Loc(last.inst))
            new == Doc(files, Loc(last.inst))
        IN /\ Valid(files, Loc(last.inst))
           /\ \A f \in Locations \ {Loc(last.inst)} : files[f] = last.before[f]
           /\ DictKeys(new) = DictKeys(old) \cup {Key(last.inst)}
           /\ \A k \in DictKeys(new) :
                 /\ DictKeys(DictGet(new, k, <<>>)) =
                       DictKeys(DictGet(old, k, <<>>)) \cup
                         (IF k = Key(last.inst) THEN {last.name} ELSE {})
                 /\ \A n \in FieldNames :
                       (k # Key(last.inst) \/ n # last.name) =>
                           Stored(new, k, n) = Stored(old, k, n)
           /\ Stored(new, Key(last.inst), last.name) = decode(encode(last.value))

\* a write made when the document held another field of the same record and
\* another record
C1_Witness ==
    /\ last.op = "set" /\ ~last.raised /\ Bound(last.inst)
    /\ LET old == Doc(last.before, Loc(last.inst))
       IN /\ \E n \in FieldNames \ {last.name} :
                Stored(old, Key(last.inst), n) # Unstored
          /\ \E k \in DictKeys(old) : k # Key(last.inst)
    /\ Stored(Doc(files, Loc(last.inst)), Key(last.inst), last.name) # Unstored

\* C2 (round trip): a write of a JSON value through an instance with location
\* and identity set that does not raise, immediately followed by a read of the
\* same field of the same record, makes the read return that value.
C2_RoundTrip ==
    [][(/\ last.op = "set" /\ ~last.raised /\ IdentitySet(last.inst)
        /\ JsonValue(last.value)
        /\ last'.op = "get" /\ nops' = nops + 1
        /\ Loc(last'.inst) = Loc(last.inst) /\ Key(last'.inst) = Key(last.inst)
        /\ last'.name = last.name)
       => (~last'.raised /\ last'.result = last.value)]_vars

\* a read that returned a stored value other than None
C2_Witness ==
    /\ last.op = "get" /\ ~last.raised /\ IdentitySet(last.inst)
    /\ last.result = PyStr("James Schue")
    /\ Stored(Doc(files, Loc(last.inst)), Key(last.inst), last.name) = last.result

\* C3 (unset identity): a field write through an instance constructed without
\* an identity changes no file and raises nothing.
C3_UnsetIdentityNoOp ==
    (last.op = "set" /\ instances[last.inst].person_id = None) =>
        (files = last.before /\ ~last.raised)

\* C4 (failed write): a field write that raises leaves every file as it was
\* before the write.
C4_FailedWriteUnchanged ==
    (last.op = "set" /\ last.raised) => files = last.before

\* C5 (serialized writes): when all writer threads have finished without an
\* error, having written different (record, field) targets of one location,
\* the document holds the value each of them wrote.
C5_NoLostUpdate ==
    (/\ \A t \in Threads : threads[t].pc = "done" /\ Bound(threads[t].inst)
     /\ \A t, u \in Threads :
           /\ Loc(threads[t].inst) = Loc(threads[u].inst)
           /\ t # u => (Key(threads[t].inst) # Key(threads[u].inst)
                        \/ threads[t].name # threads[u].name))
    => \A t \in Threads :
          Stored(Doc(files, Loc(threads[t].inst)), Key(threads[t].inst), threads[t].name)
              = decode(encode(threads[t].value))

\* C6 (valid JSON): every file is missing or holds a complete document.
C6_ValidJson ==
    \A f \in Locations : files[f].exists => json_load(files[f].data).ok

\* C7 (reads do not mutate): a field read leaves every file as it was, and
\* creates none.
C7_ReadNoMutation ==
    last.op = "get" => files = last.before

\* a read that reached storage and found no file
C7_Witness ==
    /\ last.op = "get" /\ Bound(last.inst)
    /\ ~last.before[Loc(last.inst)].exists
    /\ \E f \in Locations : files[f].exists

\* C8 (missing file): a field read whose location names no file returns None
\* and raises nothing; loading a missing file gives the empty document.
C8_MissingFile ==
    /\ (last.op = "get" /\ Bound(last.inst) /\ ~last.before[Loc(last.inst)].exists)
          => (~last.raised /\ last.result = None)
    /\ \A f \in Locations :
          ~files[f].exists =>
              (~_load_records(files, f).raised /\ _load_records(files, f).value = <<>>)

\* a read through a bound instance whose file is missing
C8_Witness ==
    /\ last.op = "get" /\ Bound(last.inst) /\ IdentitySet(last.inst)
    /\ ~last.before[Loc(last.inst)].exists
    /\ ~last.raised

\* the read found the record, and the record does not hold the field
ReadOfUnwrittenField ==
    /\ last.op = "get" /\ Bound(last.inst)
    /\ Valid(last.before, Loc(last.inst))
    /\ DictHas(Doc(last.before, Loc(last.inst)), Key(last.inst))
    /\ Stored(Doc(last.before, Loc(last.inst)), Key(last.inst), last.name) = Unstored

\* the fields of the read's record that hold null
NullFields ==
    {m \in FieldNames :
        Stored(Doc(files, Loc(last.inst)), Key(last.inst), m) = None}

C10_Idempotent ==
    [][(/\ last.op = "set" /\ IdentitySet(last.inst)
        /\ last'.op = "set" /\ nops' = nops + 1
        /\ last'.inst = last.inst /\ last'.name = last.name
        /\ last'.value = last.value)
       => files' = files]_vars

\* a write that did not raise and left the existing document exactly as it was
C10_Witness ==
    /\ last.op = "set" /\ ~last.raised /\ IdentitySet(last.inst)
    /\ last.before[Loc(last.inst)].exists
    /\ files = last.before
    /\ Cardinality(DictKeys(Doc(files, Loc(last.inst)))) > 1

\* the location and record key that the values assigned to an instance name
AssignedLoc(i) == assigned[i].filename.val
AssignedKey(i) == assigned[i].person_id.val

\* a read's result for what the document stores
ReadAs(stored) == IF stored = Unstored THEN None ELSE stored

\* C11 (no caching): every field access goes to the record named by the
\* filename and person_id last assigned to the instance: a write that raises
\* nothing stores the value there and changes nothing else in any file (so not
\* the record of the pair the instance had before), a read returns what the
\* document at the assigned filename stores for the assigned id.
C11_AccessFollowsAssignment ==
    /\ (last.op = "set" /\ ~last.raised) =>
          /\ Stored(Doc(files, AssignedLoc(last.inst)), AssignedKey(last.inst), last.name)
                = decode(encode(last.value))
          /\ \A f \in Locations, k \in RecordKeys, n \in FieldNames :
                <<f, k, n>> # <<AssignedLoc(last.inst), AssignedKey(last.inst), last.name>>
                    => Stored(Doc(files, f), k, n) = Stored(Doc(last.before, f), k, n)
    /\ (last.op = "get" /\ ~last.raised) =>
          /\ last.result =
                ReadAs(Stored(Doc(last.before, AssignedLoc(last.inst)),
                              AssignedKey(last.inst), last.name))
          /\ files = last.before

\* a write through an instance whose filename or person_id was reassigned,
\* made while the record of its first pair holds another value for the field
C11_Witness ==
    /\ last.op = "set" /\ ~last.raised
    /\ <<AssignedLoc(last.inst), AssignedKey(last.inst)>> #
          <<Constructed(last.inst).filename.val, Constructed(last.inst).person_id.val>>
    /\ LET old == Stored(Doc(files, Constructed(last.inst).filename.val),
                         Constructed(last.inst).person_id.val, last.name)
       IN old # Unstored /\ old # decode(encode(last.value))

\* C12 (read with unset identity): a field read through an instance whose
\* person_id is None returns None, raises nothing, opens no file and changes
\* none.
C12_UnsetIdentityReadsAbsent ==
    (last.op = "get" /\ assigned[last.inst].person_id = None) =>
        /\ last.result = None /\ ~last.raised
        /\ last.opens = 0
        /\ files = last.before

\* the instance has no location: its class declares no JsonFilename, or its
\* filename is None or empty
LocationUnset(i) ==
    \/ instances[i].class # "Person"
    \/ assigned[i].filename = None
    \/ assigned[i].filename = PyStr("")

\* C13 (unset location): a field read through an instance without a location
\* returns None, a field write through it changes no file, and neither opens a
\* file or raises.
C13_UnsetLocationNoOp ==
    (last.op \in {"get", "set"} /\ LocationUnset(last.inst)) =>
        /\ ~last.raised
        /\ last.result = None
        /\ last.opens = 0
        /\ files = last.before

\* a write through an instance without a location, made when a file exists
C13_Witness ==
    /\ last.op = "set" /\ LocationUnset(last.inst)
    /\ last.value # None
    /\ \E f \in Locations : files[f].exists

\* the file exists and cannot be loaded: it may not be opened, or what it
\* holds is not a document
Unloadable(fs, f) ==
    fs[f].exists /\ (fs[f].denied \/ ~json_load(fs[f].data).ok)

\* C14 (storage failures propagate): a field read or write that reaches a file
\* which exists and cannot be loaded raises an error; the write raises before
\* it opens the file for saving, and the files are as they were.
C14_LoadFailurePropagates ==
    (/\ last.op \in {"get", "set"} /\ Bound(last.inst)
     /\ Unloadable(last.before, Loc(last.inst)))
    => /\ last.raised
       /\ last.opens = 1
       /\ files = last.before

\* a write onto a file that holds a truncated document
C14_Witness ==
    /\ last.op = "set" /\ Bound(last.inst)
    /\ Unloadable(last.before, Loc(last.inst))
    /\ ~last.before[Loc(last.inst)].denied
    /\ last.raised

\* C15 (implicit creation): a write that raises nothing, for a record key the
\* document does not hold (the document of a missing file is empty), leaves a
\* valid document made of the prior records, unchanged and in their order,
\* followed by a record for the key that holds the written field alone.
C15_ImplicitCreation ==
    (/\ last.op = "set" /\ ~last.raised /\ Bound(last.inst)
     /\ ~DictHas(Doc(last.before, Loc(last.inst)), Key(last.inst)))
    => /\ Valid(files, Loc(last.inst))
       /\ Doc(files, Loc(last.inst)) =
             Append(Doc(last.before, Loc(last.inst)),
                    [k |-> Key(last.inst),
                     v |-> <<[k |-> last.name, v |-> decode(encode(last.value))]>>])

\* a write that created a record in a document that held another one
C15_Witness ==
    /\ last.op = "set" /\ ~last.raised /\ Bound(last.inst)
    /\ ~DictHas(Doc(last.before, Loc(last.inst)), Key(last.inst))
    /\ Doc(last.before, Loc(last.inst)) # <<>>
    /\ DictHas(Doc(files, Loc(last.inst)), Key(last.inst))

C17_ReadsLastWrite ==
    (last.op = "get" /\ written.ok /\ IdentitySet(last.inst)) =>
        LET w == written.map[<<AssignedLoc(last.inst), AssignedKey(last.inst), last.name>>]
        IN /\ ~last.raised
           /\ IF w.set
              THEN /\ last.result = decode(encode(w.v))
                   /\ JsonValue(w.v) => last.result = w.v
              ELSE last.result = None

\* a read that returned what another instance of the same record wrote
C17_Witness ==
    /\ last.op = "get" /\ written.ok /\ last.inst = "str_one"
    /\ last.result = PyStr("James Schue")
    /\ written.map[<<"people.json", "1", last.name>>] = Attr(last.result)
    /\ DictHas(Doc(files, "people.json"), "person-1")

\* C18 (string keys): the record key is the string form of the identity. After
\* a write that raises nothing, every instance at the same location whose
\* identity has the same string form reads the written value; the key the
\* write adds to the document, if any, is that string.
C18_KeyIsStringOfIdentity ==
    (last.op = "set" /\ ~last.raised /\ Bound(last.inst)) =>
        /\ \A j \in AllInstances :
              (/\ Bound(j) /\ Loc(j) = Loc(last.inst)
               /\ AssignedKey(j) = AssignedKey(last.inst))
              => Field__get__(files, instances[j], last.name).value
                    = decode(encode(last.value))
        /\ _record_id(instances[last.inst]).type = "str"
        /\ DictKeys(Doc(files, Loc(last.inst))) \ DictKeys(Doc(last.before, Loc(last.inst)))
              \subseteq {AssignedKey(last.inst)}

\* a write through the instance of identity 1 that the instance of identity
\* "1" reads back
C18_Witness ==
    /\ last.op = "set" /\ ~last.raised /\ last.inst = "int_one"
    /\ last.value = PyStr("James Schue")
    /\ Field__get__(files, instances["str_one"], last.name).value = last.value
    /\ DictKeys(Doc(files, "people.json")) = {"1"}

\* the format (xxx) yyy-zzzz, and nothing else
ExactFormat(value) ==
    /\ Len(value) = 14
    /\ value[1] = "(" /\ value[5] = ")" /\ value[6] = " " /\ value[10] = "-"
    /\ \A j \in {2, 3, 4, 7, 8, 9, 11, 12, 13, 14} : value[j] \in Digits

\* C19 (phone format): the phone number an object stores, if any, has exactly
\* the format (xxx) yyy-zzzz; an assignment of a value that has not raises
\* AttributeError and leaves every object as it was; an assignment to one
\* object leaves the others as they were.
C19_PhoneFormat ==
    /\ \A o \in PhoneObjects :
          objects[o]["_phone"].set => ExactFormat(objects[o]["_phone"].v)
    /\ (access.op = "phone_set" /\ ~ExactFormat(access.value)) =>
          (access.raised = "AttributeError" /\ objects = access.before)
    /\ access.op = "phone_set" =>
          \A o \in Objects \ {access.obj} : objects[o] = access.before[o]

\* C20 (one slot): a read of any LogAccess attribute of an object returns the
\* value last assigned to any LogAccess attribute of that object, whatever
\* was assigned to other objects; before any assignment it raises
\* AttributeError.
C20_SharedSlot ==
    access.op = "log_get" =>
        IF recent[access.obj].set
        THEN access.raised = "" /\ access.result = recent[access.obj].v
        ELSE access.raised = "AttributeError"

\* a read of name that returned the value assigned to email, while the other
\* object holds another value
C20_Witness ==
    /\ access.op = "log_get" /\ access.attr = "name" /\ access.raised = ""
    /\ recent[access.obj].attr = "email"
    /\ access.result = recent[access.obj].v
    /\ \E o \in LogObjects \ {access.obj} :
          recent[o].set /\ recent[o].v # access.result

====
